---- MODULE Spec2Model ----
(***************************************************************************)
(* Lumenfall image provider plugin for llmspy.                             *)
(*                                                                         *)
(* Two generator classes exist in the repository: the class of             *)
(* llmspy_lumenfall/generator.py (generate + edit) and the class defined   *)
(* inside install() in llmspy_lumenfall/__init__.py, which is the one      *)
(* install() stores in _generator_factory and registers with the host.     *)
(* One chat() invocation is modelled as a process that is suspended at     *)
(* each network await (the primary POST, each secondary GET).              *)
(***************************************************************************)
EXTENDS Integers, Sequences, FiniteSets, TLC

\* ------------------------------------------------------------- bounds
MaxMsgs == 2
MaxParts == 2
MaxItems == 2

VARIABLES
    generator_factory,  \* module global _generator_factory
    providers,          \* classes handed to ctx.add_provider
    impl,               \* class whose chat() is running
    chat,               \* the chat argument of the running chat()
    pc,                 \* position of the invocation
    branch,             \* sub-handlers chat() dispatched to, in order
    calls,              \* outbound HTTP calls issued so far, in order
    response,           \* what the primary POST answered
    i,                  \* loop index of to_response (0-based)
    images,             \* to_response's images list
    cache,              \* calls made to ctx.save_image_to_cache, in order
    gets,               \* what each secondary GET answered, in order
    result,             \* value returned, or the exception raised
    api,                \* the "api" argument the generators were constructed with
    headers,            \* what get_headers(provider, chat) gives the running chat()
    post_headers        \* the headers passed with the primary POST

VARIABLES
    cache_path,         \* models.py global _cache_path
    file,               \* the file lumenfall_models.json of the cache directory
    env_key,            \* environment variable LUMENFALL_API_KEY
    registry,           \* ctx.get_providers()["lumenfall"]: its index in made, 0 if none
    made,               \* LumenfallProvider objects constructed, in order
    installedAt,        \* number of providers made when install() first ran, -1 before
    lpc,                \* position of load()
    lcalls,             \* number of HTTP calls load() issued in this run
    loads,              \* number of load() calls begun in this run
    lastFetch,          \* what the catalog GET of the latest load() answered
    lastGood,           \* body of the most recent catalog GET answered 200 with JSON
    snap,               \* catalog, provider models and file when the latest load() began
    lastop,             \* the latest call of a models.py function, with its argument
    out,                \* what that call returned or raised
    resolved            \* the latest provider_model() call: provider, name, result

VARIABLES
    disk,               \* the cache file as the system calls see it: its text
    disk0,              \* the cache file before any of the overlapping calls
    writers,            \* the save_models() calls under way, one per caller
    reader              \* a get_models() call under way

genVars == <<generator_factory, providers, impl, chat, pc, branch, calls,
             response, i, images, cache, gets, result, api, headers, post_headers>>
loadVars == <<env_key, registry, made, installedAt, lpc, lcalls, loads, lastFetch,
              lastGood, snap>>
ioVars == <<disk, disk0, writers, reader>>
fileVars == <<cache_path, file, ioVars>>
opVars == <<lastop, out, resolved>>
vars == <<genVars, fileVars, loadVars, opVars>>

\* ------------------------------------------------------ chat transcripts
\* A URL is a sequence of segments, so that startswith/partition/split act
\* on it: "data:image/png;base64,iVBORw0K" is the five segments below.
NoUrl == <<>>
DataUrl == <<"data:", "image/png", ";base64", ",", "iVBORw0K">>
HttpUrl == <<"https:", "//example.com/a.png">>

TextPart == [type |-> "text", url |-> NoUrl]
DataImagePart == [type |-> "image_url", url |-> DataUrl]
HttpImagePart == [type |-> "image_url", url |-> HttpUrl]
Parts == {TextPart, DataImagePart, HttpImagePart}

SeqsUpTo(S, n) == UNION {[1..k -> S] : k \in 0..n}

\* content is either a string or a list of parts
StrContent == [isList |-> FALSE, parts |-> <<>>]
ListContent(ps) == [isList |-> TRUE, parts |-> ps]
Contents == {StrContent} \cup {ListContent(ps) : ps \in SeqsUpTo(Parts, MaxParts)}

Roles == {"user", "assistant"}
Messages == [role : Roles, content : Contents]

Models == {"mock-image", "flux.2-pro"}
\* what ctx.last_user_prompt(chat) gives: None, "" or a text
Prompts == {"None", "", "A blue square"}

StartsWith(url, prefix) == Len(url) >= 1 /\ url[1] = prefix

\* generator.py:36-44, the inner loop over the parts of one content list
RECURSIVE PartImages(_)
PartImages(parts) ==
    IF parts = <<>> THEN <<>>
    ELSE LET part == Head(parts)
             rest == PartImages(Tail(parts))
         IN IF part.type # "image_url" THEN rest
            ELSE IF StartsWith(part.url, "data:")
                 THEN <<[media_type |-> part.url[2], b64 |-> part.url[5]]>> \o rest
                 ELSE rest

\* generator.py:29-46, the scan of the messages from the last one back
RECURSIVE ScanMessages(_, _)
ScanMessages(messages, k) ==
    IF k = 0 THEN <<>>
    ELSE LET msg == messages[k]
         IN IF msg.role # "user" THEN ScanMessages(messages, k - 1)
            ELSE IF ~msg.content.isList THEN <<>>
                 ELSE PartImages(msg.content.parts)

MutScanAllMessages(c) ==
    LET RECURSIVE All(_)
        All(k) == IF k = 0 THEN <<>>
                  ELSE LET msg == c.messages[k]
                       IN (IF msg.role = "user" /\ msg.content.isList
                           THEN PartImages(msg.content.parts) ELSE <<>>) \o All(k - 1)
    IN All(Len(c.messages))

extract_user_images(c) == ScanMessages(c.messages, Len(c.messages))


\* ------------------------------------------------------------ exceptions
Raise(type, msg) == [type |-> type, msg |-> msg]
NoExc == Raise("", <<>>)
\* whether a message, a sequence of text segments, contains segment s
Mentions(msg, s) == \E k \in 1..Len(msg) : msg[k] = s

NoValue == [choices |-> <<>>]
Pending == [kind |-> "none", exc |-> NoExc, value |-> NoValue]
Raised(e) == [kind |-> "raised", exc |-> e, value |-> NoValue]
Returned(v) == [kind |-> "returned", exc |-> NoExc, value |-> v]

\* ------------------------------------------------------- provider answers
Truthy(x) == x \notin {"None", ""}

\* base64.b64decode on the payloads of the model (validate=False: characters
\* outside the alphabet are dropped, wrong padding raises binascii.Error)
b64decode(s) ==
    CASE s = "iVBORw0K" -> [ok |-> TRUE, bytes |-> "PNG"]
      [] s = "!!!!" -> [ok |-> TRUE, bytes |-> ""]
      [] s = "" -> [ok |-> TRUE, bytes |-> ""]
      [] OTHER -> [ok |-> FALSE, bytes |-> ""]

B64Fields == {"None", "", "iVBORw0K", "!!!!", "abc"}
UrlFields == {"None", "", "https://cdn.example/img"}
Items == [b64_json : B64Fields, url : UrlFields]

ErrorFields == {"absent", "message", "nomessage", "string"}
Body(json, error, hasData, data) ==
    [json |-> json, error |-> error, hasData |-> hasData, data |-> data]
NotJson == Body("invalid", "absent", FALSE, <<>>)
JsonList == Body("list", "absent", FALSE, <<>>)
GoodItem == [b64_json |-> "iVBORw0K", url |-> "None"]
\* JSON objects: an error field of each shape with no, empty or some data,
\* and no error field with every data array up to MaxItems
ObjectBodies ==
    {Body("object", e, FALSE, <<>>) : e \in ErrorFields}
    \cup {Body("object", e, TRUE, d) : e \in ErrorFields, d \in {<<>>, <<GoodItem>>}}
    \cup {Body("object", "absent", TRUE, d) : d \in SeqsUpTo(Items, MaxItems)}
Bodies == {NotJson, JsonList} \cup ObjectBodies
\* the raw text of a body, and the value of its error.message
Text(body) == ToString(body)
ErrorMessage == "quota exceeded"

Statuses == {200, 201, 400, 401, 404, 500}
ConnError == [raised |-> TRUE, status |-> 0, body |-> NotJson]
Answer(status, body) == [raised |-> FALSE, status |-> status, body |-> body]
PostOutcomes == {ConnError} \cup {Answer(s, b) : s \in Statuses, b \in Bodies}

\* a Content-Type is a sequence of segments, so that `"jpeg" in ct` acts on it
ContentTypes == {<<"image/", "png">>, <<"image/", "jpeg">>, <<"image/", "webp">>}
GetAnswer(raised, status, bytes, ct) ==
    [raised |-> raised, status |-> status, bytes |-> bytes, ct |-> ct]
GetOutcomes ==
    {GetAnswer(TRUE, 0, "", <<>>)}
    \cup {GetAnswer(FALSE, 200, "IMG", ct) : ct \in ContentTypes}
    \cup {GetAnswer(FALSE, 200, "", <<"image/", "png">>),
          GetAnswer(FALSE, 404, "", <<"text/", "html">>)}

\* relative URLs ctx.save_image_to_cache may return
CacheUrls == {"/~cache/a1.png", "/~cache/b2.png"}

\* ------------------------------------------------------------- requests
api_base == "https://api.lumenfall.ai/openai/v1"
GenerationsUrl == <<api_base, "/images/generations">>
EditsUrl == <<api_base, "/images/edits">>

\* a URL is a sequence of segments, a trailing slash a segment of its own
\* str.rstrip("/")
RECURSIVE rstrip(_)
rstrip(u) == IF u # <<>> /\ u[Len(u)] = "/" THEN rstrip(SubSeq(u, 1, Len(u) - 1)) ELSE u
\* str.endswith(suffix)
endswith(u, suffix) == u # <<>> /\ u[Len(u)] = suffix

\* generator.py:60-70, the fields __init__ sets from the "api" argument u
generator_init(u) ==
    LET stripped == rstrip(u)
        base == IF endswith(stripped, "/images/generations")
                   \/ endswith(stripped, "/images/edits")
                THEN SubSeq(stripped, 1, Len(stripped) - 1)
                ELSE stripped
    IN [api_base |-> base, api |-> base \o <<"/images/generations">>]

\* __init__.py:54-58, the same for the class install() defines
install_init(u) ==
    [api |-> IF endswith(u, "/images/generations") THEN u
             ELSE rstrip(u) \o <<"/images/generations">>]

HttpCall(method, url, enc, fields, item) ==
    [method |-> method, url |-> url, enc |-> enc, fields |-> fields, item |-> item]

\* generator.py:98-116, the JSON POST of _chat_generate
GeneratePost ==
    HttpCall("POST", generator_init(api).api, "json",
             {"model", "prompt", "n", "response_format", "aspect_ratio"}, -1)

\* __init__.py:69-91, the JSON POST of the class install() defines
InstallPost ==
    HttpCall("POST", install_init(api).api, "json",
             {"model", "prompt", "n", "response_format", "aspect_ratio"}, -1)

\* generator.py:127-167, the multipart POST of _chat_edit
EditPost(user_images) ==
    HttpCall("POST", generator_init(api).api_base \o <<"/images/edits">>, "multipart",
             {"prompt", "model", "n", "response_format", "image"}
                 \cup (IF Len(user_images) > 1 THEN {"mask"} ELSE {}), -1)


\* --------------------------------------------------------- chat(): request
Effect(br, cs, p, r) == [branch |-> br, calls |-> cs, pc |-> p, result |-> r]

NoPrompt == Raise("ValueError", <<"No prompt found in chat messages">>)

chat_generate(c) == Effect(<<"generate">>, <<GeneratePost>>, "post", Pending)

chat_edit(c, user_images) ==
    LET image == b64decode(user_images[1].b64)
        maskOk == IF Len(user_images) > 1 THEN b64decode(user_images[2].b64).ok ELSE TRUE
    IN IF image.ok /\ maskOk
       THEN Effect(<<"edit">>, <<EditPost(user_images)>>, "post", Pending)
       ELSE Effect(<<"edit">>, <<>>, "failed",
                   Raised(Raise("binascii.Error", <<"Incorrect padding">>)))

MutChatPostBeforePromptCheck(c) ==
    IF ~Truthy(c.prompt)
    THEN Effect(<<"generate">>, <<GeneratePost>>, "failed", Raised(NoPrompt))
    ELSE IF extract_user_images(c) # <<>> THEN chat_edit(c, extract_user_images(c))
         ELSE chat_generate(c)

\* generator.py: LumenfallImageGenerator.chat
generator_chat(c) ==
    IF ~Truthy(c.prompt) THEN Effect(<<>>, <<>>, "failed", Raised(NoPrompt))
    ELSE LET user_images == extract_user_images(c)
         IN IF user_images # <<>> THEN chat_edit(c, user_images)
            ELSE chat_generate(c)

\* __init__.py: the chat of the class install() defines, up to its POST
install_chat(c) ==
    IF ~Truthy(c.prompt) THEN Effect(<<>>, <<>>, "failed", Raised(NoPrompt))
    ELSE Effect(<<"generate">>, <<InstallPost>>, "post", Pending)

\* -------------------------------------------------------- chat(): response
Step(p, r) == [pc |-> p, result |-> r]
Fail(type, msg) == Step("failed", Raised(Raise(type, msg)))

\* the body of `if response.status >= 400:`
api_error(o) ==
    LET body == o.body
        prefix == <<"API error (", ToString(o.status), "): ">>
    IN IF body.json = "invalid" THEN Fail("RuntimeError", prefix \o <<Text(body)>>)
       ELSE IF body.json # "object" \/ body.error = "string"
            THEN Fail("AttributeError", <<"object has no attribute 'get'">>)
            ELSE IF body.error = "message"
                 THEN Fail("RuntimeError", prefix \o <<ErrorMessage>>)
                 ELSE Fail("RuntimeError", prefix \o <<Text(body)>>)

MutHeadDataBeforeError(body) ==
    IF body.json # "object"
    THEN Fail("AttributeError", <<"object has no attribute 'get'">>)
    ELSE IF body.hasData /\ body.data # <<>> THEN Step("items", Pending)
    ELSE IF body.error = "message" THEN Fail("RuntimeError", <<ErrorMessage>>)
    ELSE IF body.error = "nomessage" THEN Fail("RuntimeError", <<"str(error)">>)
    ELSE IF body.error = "string"
         THEN Fail("AttributeError", <<"object has no attribute 'get'">>)
    ELSE Fail("RuntimeError", <<"No 'data' field in API response">>)

\* to_response up to its loop
to_response_head(body) ==
    IF body.json # "object"
    THEN Fail("AttributeError", <<"object has no attribute 'get'">>)
    ELSE IF body.error = "message" THEN Fail("RuntimeError", <<ErrorMessage>>)
    ELSE IF body.error = "nomessage" THEN Fail("RuntimeError", <<"str(error)">>)
    ELSE IF body.error = "string"
         THEN Fail("AttributeError", <<"object has no attribute 'get'">>)
    ELSE IF ~body.hasData \/ body.data = <<>>
         THEN Fail("RuntimeError", <<"No 'data' field in API response">>)
    ELSE Step("items", Pending)

handle_response(o, c) ==
    IF o.raised THEN Fail("ClientError", <<"Cannot connect to host">>)
    ELSE IF o.status = 401
         THEN Fail("PermissionError",
                   <<"Unauthorized: Invalid API key. ", "Check ", "LUMENFALL_API_KEY",
                     " environment variable.">>)
    ELSE IF o.status = 404 THEN Fail("ValueError", <<"Model not found: ", c.model>>)
    ELSE IF o.status >= 400 THEN api_error(o)
    ELSE IF o.body.json = "invalid"
         THEN Fail("JSONDecodeError", <<"Expecting value">>)
    ELSE to_response_head(o.body)


\* --------------------------------------------------- to_response: the loop
Data == response.body.data

\* the extension inferred from the download's Content-Type
Ext(ct) ==
    IF Mentions(ct, "jpeg") \/ Mentions(ct, "jpg") THEN "jpg"
    ELSE IF Mentions(ct, "webp") THEN "webp" ELSE "png"

ImageEntry(u) == [type |-> "image_url", image_url |-> [url |-> u]]
Response(imgs) ==
    [choices |-> <<[message |-> [role |-> "assistant", content |-> "default_content",
                                 images |-> imgs]]>>]

NoImageData == Raise("RuntimeError", <<"No image data in response item ", ToString(i)>>)

\* the exception e leaves to_response: nothing more is done
Abort(e) ==
    /\ pc' = "failed"
    /\ result' = Raised(e)
    /\ UNCHANGED <<i, images, cache>>

CacheCall(image_bytes, src, ext, relative_url) ==
    [index |-> i, bytes |-> image_bytes, src |-> src,
     filename |-> <<chat.model, "-", ToString(i), ".", ext>>, url |-> relative_url]

MutStorePrepend(image_bytes, src, ext) ==
    IF Truthy(image_bytes)
    THEN \E relative_url \in CacheUrls :
           /\ cache' = Append(cache, CacheCall(image_bytes, src, ext, relative_url))
           /\ images' = <<ImageEntry(relative_url)>> \o images
           /\ i' = i + 1
           /\ IF i + 1 = Len(Data)
              THEN pc' = "done" /\ result' = Returned(Response(images'))
              ELSE pc' = "items" /\ UNCHANGED result
    ELSE Abort(NoImageData)

MutStoreSkipsEmpty(image_bytes, src, ext) ==
    \E relative_url \in CacheUrls :
        /\ cache' = IF Truthy(image_bytes)
                    THEN Append(cache, CacheCall(image_bytes, src, ext, relative_url))
                    ELSE cache
        /\ images' = IF Truthy(image_bytes)
                     THEN Append(images, ImageEntry(relative_url)) ELSE images
        /\ i' = i + 1
        /\ IF i + 1 = Len(Data)
           THEN pc' = "done" /\ result' = Returned(Response(images'))
           ELSE pc' = "items" /\ UNCHANGED result

MutStoreRollsBack(image_bytes, src, ext) ==
    IF Truthy(image_bytes)
    THEN \E relative_url \in CacheUrls :
           /\ cache' = Append(cache, CacheCall(image_bytes, src, ext, relative_url))
           /\ images' = Append(images, ImageEntry(relative_url))
           /\ i' = i + 1
           /\ IF i + 1 = Len(Data)
              THEN pc' = "done" /\ result' = Returned(Response(images'))
              ELSE pc' = "items" /\ UNCHANGED result
    ELSE /\ pc' = "failed"
         /\ result' = Raised(NoImageData)
         /\ cache' = <<>>
         /\ UNCHANGED <<i, images>>

\* `if image_bytes:` to the end of the loop body, and the return after the
\* last item
Store(image_bytes, src, ext) ==
    IF Truthy(image_bytes)
    THEN \E relative_url \in CacheUrls :
           /\ cache' = Append(cache, CacheCall(image_bytes, src, ext, relative_url))
           /\ images' = Append(images, ImageEntry(relative_url))
           /\ i' = i + 1
           /\ IF i + 1 = Len(Data)
              THEN pc' = "done" /\ result' = Returned(Response(images'))
              ELSE pc' = "items" /\ UNCHANGED result
    ELSE Abort(NoImageData)

\* ---------------------------------------------------- headers of the POST
\* a header set is a dict: entries [name, value], names distinct by spelling
Header(name, value) == [name |-> name, value |-> value]
Authorization == Header("Authorization", "Bearer sk-test")
ContentTypeSpellings == {"Content-Type", "content-type", "Content-type", "CONTENT-TYPE"}
\* str.lower() on the header names of the model
lower(name) == IF name \in ContentTypeSpellings THEN "content-type"
               ELSE IF name = "Authorization" THEN "authorization" ELSE name
\* what get_headers(provider, chat) may give: the bearer token and JSON
\* content type the host sets, the latter spelled as the configuration has it
HeaderSets ==
    {{Authorization} \cup {Header(n, "application/json") : n \in ns} :
         ns \in SUBSET ContentTypeSpellings}
DefaultHeaders == {Authorization, Header("Content-Type", "application/json")}

\* dict.pop(name, None)
pop(h, name) == {e \in h : e.name # name}
\* generator.py:156-158
edit_headers(h) == pop(pop(h, "Content-Type"), "content-type")

\* the headers argument of the POST the chat effect e issues
PostHeaders(e, h) ==
    IF e.calls = <<>> THEN {}
    ELSE IF e.branch = <<"edit">> THEN edit_headers(h) ELSE h

\* ------------------------------------------------------ the model catalog
MaxEntries == 2

Ids == {"mock-image", "flux.2-pro", "gpt-image-1"}
Names == {"Mock Image", "FLUX.2 Pro"}
\* an entry of "data"; "None" stands for a key the entry lacks
Entry(id, name) == [id |-> id, name |-> name]
Entries == {Entry(id, name) : id \in Ids \cup {"None"}, name \in Names \cup {"None"}}

\* a JSON document as resp.json() / json.load give it
Doc(json, hasData, data) == [json |-> json, hasData |-> hasData, data |-> data]
ListDoc == Doc("list", FALSE, <<>>)
NoDataDoc == Doc("object", FALSE, <<>>)
DataDoc(data) == Doc("object", TRUE, data)
Docs == {ListDoc, NoDataDoc} \cup {DataDoc(d) : d \in SeqsUpTo(Entries, MaxEntries)}

\* what get_models / _parse_models return or raise; a mapping is the set of
\* its values, one {id, name} per key
NoCall == [kind |-> "none", exc |-> NoExc, models |-> {}]
Gave(models) == [kind |-> "returned", exc |-> NoExc, models |-> models]
Threw(e) == [kind |-> "raised", exc |-> e, models |-> {}]

\* models.py:45-53
RECURSIVE ParseEntries(_, _, _)
ParseEntries(data, k, models) ==
    IF k > Len(data) THEN Gave(models)
    ELSE LET m == data[k]
         IN IF m.id = "None" THEN Threw(Raise("KeyError", <<"'id'">>))
            ELSE ParseEntries(data, k + 1,
                     {e \in models : e.id # m.id}
                         \cup {Entry(m.id, IF m.name = "None" THEN m.id ELSE m.name)})

MutParseFirstWins(api_response) ==
    LET RECURSIVE First(_, _)
        First(k, models) ==
            IF k > Len(api_response.data) THEN Gave(models)
            ELSE LET m == api_response.data[k]
                 IN IF m.id = "None" THEN Threw(Raise("KeyError", <<"'id'">>))
                    ELSE IF \E e \in models : e.id = m.id THEN First(k + 1, models)
                    ELSE First(k + 1, models \cup
                             {Entry(m.id, IF m.name = "None" THEN m.id ELSE m.name)})
    IN IF api_response.json # "object"
       THEN Threw(Raise("AttributeError", <<"'list' object has no attribute 'get'">>))
       ELSE First(1, {})

parse_models(api_response) ==
    IF api_response.json # "object"
    THEN Threw(Raise("AttributeError", <<"'list' object has no attribute 'get'">>))
    ELSE ParseEntries(IF api_response.hasData THEN api_response.data ELSE <<>>, 1, {})

\* the file of the cache directory: absent, present but failing to open
\* (OSError), holding text that is not JSON, or holding a JSON document
File(state, doc) == [state |-> state, doc |-> doc]
FileAbsent == File("absent", NoDataDoc)
Unreadable == File("unreadable", NoDataDoc)
NotJsonText == File("text", NoDataDoc)
\* json.dump(api_response, f) on a file opened with "w"
json_dump(api_response) == File("json", api_response)

CachePath == "~/.llms/cache/lumenfall_models.json"

\* models.json, bundled next to models.py
StaticDoc == DataDoc(<<Entry("mock-image", "Mock Image"), Entry("flux.2-pro", "None")>>)

MutGetModelsStaticOnly(cp, f) == parse_models(StaticDoc)

\* models.py:23-34
get_models(cp, f) ==
    IF cp # "None" /\ f.state # "absent"
    THEN IF f.state = "json" THEN parse_models(f.doc)
         ELSE parse_models(StaticDoc)
    ELSE parse_models(StaticDoc)

MutSaveWithoutDir(cp, f, api_response) == json_dump(api_response)

\* models.py:37-42, the file it leaves
save_models(cp, f, api_response) ==
    IF cp = "None" THEN f
    ELSE json_dump(api_response)

\* ------------------------------------------- the cache file as text
MaxWriters == 2
\* tokens the io buffer passes to the file in one write
BufferLen == 2

\* the text json.dump writes, as tokens: the brackets, one token per entry,
\* and the zero bytes of a hole
Tok(kind, entry) == [kind |-> kind, entry |-> entry]
Mark(kind) == Tok(kind, Entry("None", "None"))
Hole == Mark("\\0")

RECURSIVE EntryToks(_, _)
EntryToks(data, k) ==
    IF k > Len(data) THEN <<>> ELSE <<Tok("entry", data[k])>> \o EntryToks(data, k + 1)

\* json.dump(api_response, f): the text written
dumps(api_response) ==
    IF api_response.json = "list" THEN <<Mark("["), Mark("]")>>
    ELSE IF ~api_response.hasData THEN <<Mark("{"), Mark("}")>>
    ELSE <<Mark("{data[")>> \o EntryToks(api_response.data, 1) \o <<Mark("]}")>>

\* json.load(f) on the text read: the document, or JSONDecodeError
json_load(text) ==
    IF text = <<Mark("["), Mark("]")>> THEN File("json", ListDoc)
    ELSE IF text = <<Mark("{"), Mark("}")>> THEN File("json", NoDataDoc)
    ELSE IF /\ Len(text) >= 2
            /\ text[1] = Mark("{data[")
            /\ text[Len(text)] = Mark("]}")
            /\ \A k \in 2..(Len(text) - 1) : text[k].kind = "entry"
         THEN File("json", DataDoc([k \in 1..(Len(text) - 2) |-> text[k + 1].entry]))
         ELSE NotJsonText

\* the file of the cache directory at the level of open, write and read
Disk(exists, text) == [exists |-> exists, text |-> text]
DiskAbsent == Disk(FALSE, <<>>)
\* what a reader that opens and reads the file now finds
FileOf(d) == IF d.exists THEN json_load(d.text) ELSE FileAbsent

\* write(chunk) at offset off of a file opened without O_APPEND: the bytes
\* there are replaced, what lies behind them stays, a gap is filled with zeros
WriteAt(text, off, chunk) ==
    LET end == off + Len(chunk)
        len == IF end > Len(text) THEN end ELSE Len(text)
    IN [k \in 1..len |-> IF k > off /\ k <= end THEN chunk[k - off]
                         ELSE IF k <= Len(text) THEN text[k] ELSE Hole]

\* a save_models() call: where it is, its argument, the offset of its file object
Writer(wpc, doc, off) == [pc |-> wpc, doc |-> doc, off |-> off]
IdleWriter == Writer("idle", NoDataDoc, 0)
\* a get_models() call: where it is and what it returned or raised
Reader(rpc, value) == [pc |-> rpc, out |-> value]
IdleReader == Reader("idle", NoCall)

\* no save_models() or get_models() call under way, the file one of `disks`
InitDisk(disks) ==
    /\ disk \in disks
    /\ disk0 = disk
    /\ writers = [w \in 1..MaxWriters |-> IdleWriter]
    /\ reader = IdleReader

\* os.makedirs(cache_dir, exist_ok=True) and the path models.py keeps
set_cache_dir == CachePath

\* ------------------------------------------------------------ the provider
MaxProviders == 2
MaxLoads == 2

\* a LumenfallProvider object: the catalog it holds and whether its
\* modalities hold an "image" handler
Provider(origin, models, image) == [origin |-> origin, models |-> models, image |-> image]
NoProvider == Provider("none", {}, FALSE)
\* what a constructor call gives: the object, or the exception it raises
Built(p) == [kind |-> "returned", exc |-> NoExc, provider |-> p]
NotBuilt(e) == [kind |-> "raised", exc |-> e, provider |-> NoProvider]

MutProviderAlwaysWired(origin, cp, f, factory) ==
    LET models == get_models(cp, f)
    IN IF models.kind = "raised" THEN NotBuilt(models.exc)
       ELSE Built(Provider(origin, models.models, TRUE))

\* provider.py:24-55, LumenfallProvider(**kwargs) without a "models" argument
LumenfallProvider(origin, cp, f, factory) ==
    LET models == get_models(cp, f)
    IN IF models.kind = "raised" THEN NotBuilt(models.exc)
       ELSE Built(Provider(origin, models.models, factory # "None"))

\* a model name as the host passes it: an optional "provider/" prefix, the
\* name proper, and whether it is spelled in lower case or with capitals
ModelName(prefix, base, cased) == [prefix |-> prefix, base |-> base, cased |-> cased]
TextModels == {"gpt-4o", "claude-3-opus", "llama-3", "mistral-large", "gemini-2.5-flash"}
ModelNames ==
    {ModelName(prefix, base, cased) :
         prefix \in {"", "lumenfall/", "openai/"},
         base \in Ids \cup TextModels \cup {"nonexistent-xyz-99"},
         cased \in {"lower", "capitals"}}
\* str.lower() on a model name
lower_name(n) == [n EXCEPT !.cased = "lower"]
\* the catalog id as a name
IdName(id) == ModelName("", id, "lower")
NoResolution == [provider |-> 0, name |-> IdName(""), id |-> "None"]

MutProviderModelExact(p, name) ==
    LET hits == {m.id : m \in {m \in p.models : IdName(m.id) = name}}
    IN IF hits = {} THEN "None" ELSE CHOOSE id \in hits : TRUE

\* provider_model(name) of the host's OpenAiCompatible, which LumenfallProvider
\* inherits: the provider's own prefix is stripped and the name is matched
\* against the catalog ids without regard to case; "None" is the null result
provider_model(p, name) ==
    LET stripped == IF name.prefix = "lumenfall/" THEN [name EXCEPT !.prefix = ""] ELSE name
        hits == {e.id : e \in {m \in p.models : IdName(m.id) = lower_name(stripped)}}
    IN IF hits = {} THEN "None" ELSE CHOOSE id \in hits : TRUE

\* what the catalog GET of load() answers: it raises (connection error,
\* timeout), or answers with a status and a body that is JSON or not
Fetch(kind, status, json, doc) == [kind |-> kind, status |-> status, json |-> json, doc |-> doc]
NoFetch == Fetch("none", 0, "invalid", NoDataDoc)
FetchRaised == Fetch("raised", 0, "invalid", NoDataDoc)
Fetched(status, doc) == Fetch("answered", status, "valid", doc)
FetchedText(status) == Fetch("answered", status, "invalid", NoDataDoc)
\* the state load() found: catalog, registry entry before and after the
\* registration step, the entry's models, the file, the calls issued so far
NoSnap == [catalog |-> NoCall, before |-> 0, entry |-> 0, models |-> {},
           file |-> FileAbsent, calls |-> 0, path |-> "None"]

\* __init__.py:230-251 inside the try: what the refresh does on answer o
\* with the cache path cp, the file f and the entry's models; exc is the
\* exception that leaves the try body, if any
Refreshed(exc, f, models) == [exc |-> exc, file |-> f, models |-> models]
MutRefreshSavesAnyStatus(o, cp, f, has, models) ==
    IF o.kind = "raised" THEN Refreshed(Raise("ClientError", <<"Cannot connect to host">>), f, models)
    ELSE IF o.json = "invalid"
         THEN Refreshed(Raise("ContentTypeError", <<"Attempt to decode JSON">>), f, models)
    ELSE LET saved == save_models(cp, f, o.doc)
             fresh == get_models(cp, saved)
         IN IF ~has THEN Refreshed(NoExc, saved, models)
            ELSE IF fresh.kind = "raised" THEN Refreshed(fresh.exc, saved, models)
            ELSE Refreshed(NoExc, saved, fresh.models)

refresh(o, cp, f, has, models) ==
    IF o.kind = "raised" THEN Refreshed(Raise("ClientError", <<"Cannot connect to host">>), f, models)
    ELSE IF o.status # 200 THEN Refreshed(NoExc, f, models)
    ELSE IF o.json = "invalid"
         THEN Refreshed(Raise("ContentTypeError", <<"Attempt to decode JSON">>), f, models)
    ELSE LET saved == save_models(cp, f, o.doc)
             fresh == get_models(cp, saved)
         IN IF ~has THEN Refreshed(NoExc, saved, models)
            ELSE IF fresh.kind = "raised" THEN Refreshed(fresh.exc, saved, models)
            ELSE Refreshed(NoExc, saved, fresh.models)

\* a call of a models.py function: its argument, the file it found, and the
\* call made just before it
Op(name, arg, before, after) ==
    [name |-> name, arg |-> arg, before |-> before, after |-> after]
NoOp == Op("none", NoDataDoc, FileAbsent, "none")

\* -------------------------------------------------------------- actions
NoChat == [model |-> "", prompt |-> "None", messages |-> <<>>]
NoAnswer == Answer(0, NotJson)

\* no chat() has been called
InitChat ==
    /\ generator_factory = "None"
    /\ providers = {}
    /\ impl = "none"
    /\ chat = NoChat
    /\ pc = "idle"
    /\ branch = <<>>
    /\ calls = <<>>
    /\ response = NoAnswer
    /\ i = 0
    /\ images = <<>>
    /\ cache = <<>>
    /\ gets = <<>>
    /\ result = Pending
    /\ post_headers = {}

\* the module globals of models.py and __init__.py at import, nothing loaded
InitCatalog ==
    /\ cache_path = "None"
    /\ registry = 0
    /\ made = <<>>
    /\ installedAt = -1
    /\ lpc = "idle"
    /\ lcalls = 0
    /\ loads = 0
    /\ lastFetch = NoFetch
    /\ lastGood = NoFetch
    /\ snap = NoSnap
    /\ lastop = NoOp
    /\ out = NoCall
    /\ resolved = NoResolution

Init ==
    /\ InitChat
    /\ InitCatalog
    /\ InitDisk({DiskAbsent})
    /\ headers = DefaultHeaders
    /\ api = <<api_base>>
    /\ file = FileAbsent
    /\ env_key = "None"

\* install(ctx): the cache directory is set, the generator class is stored
\* and registered
Install ==
    /\ pc = "idle"
    /\ lpc # "fetch"
    /\ cache_path' = set_cache_dir
    /\ generator_factory' = "install.LumenfallImageGenerator"
    /\ providers' = providers \cup {"LumenfallProvider", "install.LumenfallImageGenerator"}
    /\ installedAt' = IF installedAt = -1 THEN Len(made) ELSE installedAt
    /\ UNCHANGED <<impl, chat, pc, branch, calls, response, i, images, cache, gets, result,
                   api, headers, post_headers, file, ioVars, opVars>>
    /\ UNCHANGED <<env_key, registry, made, lpc, lcalls, loads, lastFetch, lastGood, snap>>

Begin(c, class, e) ==
    /\ chat' = c
    /\ impl' = class
    /\ branch' = e.branch
    /\ calls' = e.calls
    /\ pc' = e.pc
    /\ result' = e.result
    /\ post_headers' = PostHeaders(e, headers)
    /\ UNCHANGED <<generator_factory, providers, response, i, images, cache, gets, api, headers>>
    /\ UNCHANGED <<fileVars, loadVars, opVars>>

\* chat() of generator.py's class is called with one of `chats`
Chat(chats) ==
    /\ pc = "idle"
    /\ \E c \in chats : Begin(c, "generator.py", generator_chat(c))

\* chat() of the installed class is called (the host dispatches to the
\* generator the provider built from _generator_factory)
InstallChat(chats) ==
    /\ pc = "idle"
    /\ generator_factory # "None"
    /\ \E c \in chats : Begin(c, generator_factory, install_chat(c))

\* the primary POST answers or raises: _handle_response and to_response up
\* to the loop
HandleResponse(outcomes) ==
    /\ pc = "post"
    /\ \E o \in outcomes :
         /\ response' = o
         /\ pc' = handle_response(o, chat).pc
         /\ result' = handle_response(o, chat).result
    /\ UNCHANGED <<generator_factory, providers, impl, chat, branch, calls, i, images,
                   cache, gets>>
    /\ UNCHANGED <<api, headers, post_headers, fileVars, loadVars, opVars>>

MutItemUrlBeforeB64 ==
    /\ pc = "items"
    /\ LET item == Data[i + 1]
       IN IF Truthy(item.url)
          THEN /\ calls' = Append(calls, HttpCall("GET", <<item.url>>, "none", {}, i))
               /\ pc' = "get"
               /\ UNCHANGED <<i, images, cache, result>>
          ELSE IF Truthy(item.b64_json)
               THEN /\ IF b64decode(item.b64_json).ok
                       THEN Store(b64decode(item.b64_json).bytes, "b64_json", "png")
                       ELSE Abort(Raise("binascii.Error", <<"Incorrect padding">>))
                    /\ UNCHANGED calls
               ELSE Store("None", "none", "png") /\ UNCHANGED calls
    /\ UNCHANGED <<generator_factory, providers, impl, chat, branch, response, gets>>
    /\ UNCHANGED <<api, headers, post_headers, fileVars, loadVars, opVars>>

\* one pass of the loop body up to its await or its end
ToResponseItem ==
    /\ pc = "items"
    /\ LET item == Data[i + 1]
       IN IF Truthy(item.b64_json)
          THEN /\ IF b64decode(item.b64_json).ok
                  THEN Store(b64decode(item.b64_json).bytes, "b64_json", "png")
                  ELSE Abort(Raise("binascii.Error", <<"Incorrect padding">>))
               /\ UNCHANGED calls
          ELSE IF Truthy(item.url)
               THEN /\ calls' = Append(calls, HttpCall("GET", <<item.url>>, "none", {}, i))
                    /\ pc' = "get"
                    /\ UNCHANGED <<i, images, cache, result>>
               ELSE Store("None", "none", "png") /\ UNCHANGED calls
    /\ UNCHANGED <<generator_factory, providers, impl, chat, branch, response, gets>>
    /\ UNCHANGED <<api, headers, post_headers, fileVars, loadVars, opVars>>

MutGetRetries(outcomes) ==
    /\ pc = "get"
    /\ \E g \in outcomes :
         /\ gets' = Append(gets, [item |-> i, answer |-> g])
         /\ IF g.raised
            THEN /\ calls' = Append(calls, calls[Len(calls)])
                 /\ UNCHANGED <<pc, result, i, images, cache>>
            ELSE /\ UNCHANGED calls
                 /\ IF g.status = 200 THEN Store(g.bytes, "url", Ext(g.ct))
                    ELSE Abort(Raise("RuntimeError",
                                     <<"Failed to download image: ", "HTTP ",
                                       ToString(g.status)>>))
    /\ UNCHANGED <<generator_factory, providers, impl, chat, branch, response>>
    /\ UNCHANGED <<api, headers, post_headers, fileVars, loadVars, opVars>>

\* the secondary GET of item i answers or raises
GetReturns(outcomes) ==
    /\ pc = "get"
    /\ \E g \in outcomes :
         /\ gets' = Append(gets, [item |-> i, answer |-> g])
         /\ IF g.raised THEN Abort(Raise("ClientError", <<"Cannot connect to host">>))
            ELSE IF g.status = 200 THEN Store(g.bytes, "url", Ext(g.ct))
            ELSE Abort(Raise("RuntimeError",
                             <<"Failed to download image: ", "HTTP ", ToString(g.status)>>))
    /\ UNCHANGED <<generator_factory, providers, impl, chat, branch, calls, response>>
    /\ UNCHANGED <<api, headers, post_headers, fileVars, loadVars, opVars>>

\* ------------------------------------------------- actions of models.py
\* set_cache_dir(cache_dir) is called
SetCacheDir ==
    /\ cache_path' = set_cache_dir
    /\ lastop' = Op("set_cache_dir", NoDataDoc, file, lastop.name)
    /\ out' = NoCall
    /\ UNCHANGED <<genVars, loadVars, file, ioVars, resolved>>

\* get_models() is called
GetModels ==
    /\ out' = get_models(cache_path, file)
    /\ lastop' = Op("get_models",
                    IF lastop.name = "save_models" THEN lastop.arg ELSE NoDataDoc,
                    file, lastop.name)
    /\ UNCHANGED <<genVars, loadVars, fileVars, resolved>>

\* save_models(api_response) is called with one of `responses`
SaveModels(responses) ==
    \E api_response \in responses :
        /\ file' = save_models(cache_path, file, api_response)
        /\ lastop' = Op("save_models", api_response, file, lastop.name)
        /\ out' = NoCall
        /\ UNCHANGED <<genVars, loadVars, cache_path, ioVars, resolved>>

\* _parse_models(api_response) is called with one of `responses`
ParseModels(responses) ==
    \E api_response \in responses :
        /\ out' = parse_models(api_response)
        /\ lastop' = Op("_parse_models", api_response, file, lastop.name)
        /\ UNCHANGED <<genVars, loadVars, fileVars, resolved>>

\* ------------------------------- models.py under overlapping callers
\* caller w enters save_models(api_response): the early return, or
\* open(_cache_path, "w"), which creates the file or truncates it
SaveOpen(w, responses) ==
    /\ writers[w].pc = "idle"
    /\ \E api_response \in responses :
         IF cache_path = "None"
         THEN /\ writers' = [writers EXCEPT ![w] = Writer("closed", api_response, 0)]
              /\ UNCHANGED disk
         ELSE /\ writers' = [writers EXCEPT ![w] = Writer("open", api_response, 0)]
              /\ disk' = Disk(TRUE, <<>>)
    /\ UNCHANGED <<genVars, loadVars, opVars, cache_path, file, disk0, reader>>

\* the file object of caller w passes its next buffer to the file; after the
\* last one the file is closed
SaveWrite(w) ==
    /\ writers[w].pc = "open"
    /\ LET text == dumps(writers[w].doc)
           off == writers[w].off
           end == IF off + BufferLen > Len(text) THEN Len(text) ELSE off + BufferLen
       IN /\ disk' = Disk(TRUE, WriteAt(disk.text, off, SubSeq(text, off + 1, end)))
          /\ writers' = [writers EXCEPT ![w] =
                             Writer(IF end = Len(text) THEN "closed" ELSE "open",
                                    writers[w].doc, end)]
    /\ UNCHANGED <<genVars, loadVars, opVars, cache_path, file, disk0, reader>>

\* get_models() up to `os.path.exists(_cache_path)`
ReadExists ==
    /\ reader.pc = "idle"
    /\ reader' = IF cache_path # "None" /\ disk.exists
                 THEN Reader("exists", NoCall)
                 ELSE Reader("done", parse_models(StaticDoc))
    /\ UNCHANGED <<genVars, loadVars, opVars, cache_path, file, disk, disk0, writers>>

\* get_models() from open(_cache_path) on: the text is read and parsed
ReadLoad ==
    /\ reader.pc = "exists"
    /\ reader' = Reader("done", get_models(cache_path, FileOf(disk)))
    /\ UNCHANGED <<genVars, loadVars, opVars, cache_path, file, disk, disk0, writers>>

\* ------------------------------------ actions of the provider and load()
\* provider_model(name) is called on a provider with one of `names`
ProviderModel(names) ==
    /\ \E k \in 1..Len(made), name \in names :
         resolved' = [provider |-> k, name |-> name, id |-> provider_model(made[k], name)]
    /\ UNCHANGED <<genVars, fileVars, loadVars, lastop, out>>

\* LumenfallProvider() is constructed directly, outside the registry
ProviderNew ==
    /\ Len(made) < MaxProviders
    /\ LET built == LumenfallProvider("direct", cache_path, file, generator_factory)
       IN made' = IF built.kind = "returned" THEN Append(made, built.provider) ELSE made
    /\ UNCHANGED <<genVars, fileVars, opVars>>
    /\ UNCHANGED <<env_key, registry, installedAt, lpc, lcalls, loads, lastFetch, lastGood, snap>>

\* the host populates the registry from llms.json, after install() and before
\* load(): a configured "lumenfall" entry is constructed and registered
HostConfigures ==
    /\ generator_factory # "None"
    /\ registry = 0
    /\ loads = 0
    /\ Len(made) < MaxProviders
    /\ LET built == LumenfallProvider("llms.json", cache_path, file, generator_factory)
       IN /\ built.kind = "returned"
          /\ made' = Append(made, built.provider)
          /\ registry' = Len(made) + 1
    /\ UNCHANGED <<genVars, fileVars, opVars>>
    /\ UNCHANGED <<env_key, installedAt, lpc, lcalls, loads, lastFetch, lastGood, snap>>

Snap(reg, mk, calls0) ==
    [catalog |-> get_models(cache_path, file), before |-> registry, entry |-> reg,
     models |-> IF reg = 0 THEN {} ELSE mk[reg].models, file |-> file, calls |-> calls0,
     path |-> cache_path]

\* load(ctx) up to its await: the early returns, the registration, and the
\* GET of {base}/models going out
LoadBegin ==
    /\ lpc \in {"idle", "returned"}
    /\ generator_factory # "None"
    /\ loads < MaxLoads
    /\ Len(made) < MaxProviders
    /\ loads' = loads + 1
    /\ lastFetch' = NoFetch
    /\ IF registry # 0 \/ ~Truthy(env_key)
       THEN /\ lpc' = "returned"
            /\ snap' = Snap(registry, made, lcalls)
            /\ UNCHANGED <<registry, made, lcalls>>
       ELSE LET built == LumenfallProvider("auto", cache_path, file, generator_factory)
            IN /\ IF built.kind = "returned"
                  THEN /\ made' = Append(made, built.provider)
                       /\ registry' = Len(made) + 1
                  ELSE UNCHANGED <<made, registry>>
               /\ lcalls' = lcalls + 1
               /\ snap' = Snap(registry', made', lcalls)
               /\ lpc' = "fetch"
    /\ UNCHANGED <<genVars, fileVars, opVars, env_key, installedAt, lastGood>>

\* the GET answers with one of `outcomes`, or raises: the rest of load(),
\* whose `except Exception: pass` takes every exception of the refresh
LoadRefresh(outcomes) ==
    /\ lpc = "fetch"
    /\ \E o \in outcomes :
         LET r == refresh(o, cache_path, file, registry # 0,
                          IF registry = 0 THEN {} ELSE made[registry].models)
         IN /\ file' = r.file
            /\ made' = IF registry = 0 THEN made
                       ELSE [made EXCEPT ![registry].models = r.models]
            /\ lastFetch' = o
            /\ lastGood' = IF o.kind = "answered" /\ o.status = 200 /\ o.json = "valid"
                           THEN o ELSE lastGood
            /\ lpc' = "returned"
    /\ UNCHANGED <<genVars, opVars, cache_path, ioVars>>
    /\ UNCHANGED <<env_key, registry, installedAt, lcalls, loads, snap>>

\* the host process ends and a new one starts with LUMENFALL_API_KEY one of
\* `envs`: the module globals are as at import, the cache file stays
Restart(envs) ==
    /\ pc = "idle"
    /\ \E key \in envs : env_key' = key
    /\ generator_factory' = "None"
    /\ providers' = {}
    /\ cache_path' = "None"
    /\ registry' = 0
    /\ made' = <<>>
    /\ installedAt' = -1
    /\ lpc' = "idle"
    /\ lcalls' = 0
    /\ loads' = 0
    /\ lastFetch' = NoFetch
    /\ snap' = NoSnap
    /\ lastop' = NoOp
    /\ out' = NoCall
    /\ resolved' = NoResolution
    /\ UNCHANGED <<impl, chat, pc, branch, calls, response, i, images, cache, gets, result,
                   api, headers, post_headers, file, ioVars, lastGood>>

\* ------------------------------------------------------- specifications
UserMsg(content) == [role |-> "user", content |-> content]
\* transcripts the response path is explored with
FewMessages ==
    { <<UserMsg(StrContent)>>,
      <<UserMsg(ListContent(<<TextPart, DataImagePart>>))>>,
      <<UserMsg(ListContent(<<DataImagePart, DataImagePart>>))>>,
      <<UserMsg(ListContent(<<DataImagePart>>)), [role |-> "assistant", content |-> StrContent],
        UserMsg(ListContent(<<TextPart>>))>> }
ChatsFew ==
    [model : {"mock-image"}, prompt : Prompts, messages : FewMessages]
    \cup {[model |-> "flux.2-pro", prompt |-> "A blue square",
           messages |-> <<UserMsg(StrContent)>>]}
\* every transcript of up to MaxMsgs messages
ChatsAll == [model : {"mock-image"}, prompt : {"", "A blue square"},
             messages : SeqsUpTo(Messages, MaxMsgs)]

UrlItem == [b64_json |-> "None", url |-> "https://cdn.example/img"]
FewPostOutcomes == {ConnError, Answer(200, Body("object", "absent", TRUE, <<GoodItem>>))}

Next ==
    \/ Install
    \/ Chat(ChatsFew)
    \/ InstallChat(ChatsFew)
    \/ HandleResponse(PostOutcomes)
    \/ ToResponseItem
    \/ GetReturns(GetOutcomes)

Spec == Init /\ [][Next]_vars

\* the functions of models.py called in any order, over a cache directory
\* that may hold a file from an earlier run
FewDocs ==
    {ListDoc, NoDataDoc, DataDoc(<<>>),
     DataDoc(<<Entry("mock-image", "Mock Image")>>),
     DataDoc(<<Entry("gpt-image-1", "None")>>),
     DataDoc(<<Entry("None", "Mock Image")>>),
     DataDoc(<<Entry("flux.2-pro", "FLUX.2 Pro"), Entry("flux.2-pro", "None")>>),
     DataDoc(<<Entry("gpt-image-1", "None"), Entry("mock-image", "FLUX.2 Pro")>>)}
FewFiles == {FileAbsent, Unreadable, NotJsonText} \cup {json_dump(d) : d \in FewDocs}

InitModels ==
    /\ InitChat
    /\ InitCatalog
    /\ InitDisk({DiskAbsent})
    /\ headers = DefaultHeaders
    /\ api = <<api_base>>
    /\ file \in FewFiles
    /\ env_key = "None"

NextModels ==
    \/ SetCacheDir
    \/ GetModels
    \/ SaveModels(FewDocs)

SpecModels == InitModels /\ [][NextModels]_vars

\* _parse_models applied to every response of up to MaxEntries entries
NextParse == ParseModels(Docs)

SpecParse == Init /\ [][NextParse]_vars

\* host runs one after the other: install(), the registry populated, load()
\* and its catalog refresh, over the cache file the runs share
EnvKeys == {"None", "", "sk-test"}
FetchOutcomes ==
    {FetchRaised, FetchedText(200), FetchedText(500)}
    \cup {Fetched(st, d) : st \in {200, 401}, d \in FewDocs}

\* the first run: no cache file yet, the key set or not
InitLoad ==
    /\ InitChat
    /\ InitCatalog
    /\ InitDisk({DiskAbsent})
    /\ headers = DefaultHeaders
    /\ api = <<api_base>>
    /\ file = FileAbsent
    /\ env_key \in EnvKeys

NextLoad ==
    \/ Install
    \/ ProviderNew
    \/ HostConfigures
    \/ LoadBegin
    \/ LoadRefresh(FetchOutcomes)
    \/ Restart(EnvKeys)

SpecLoad == InitLoad /\ [][NextLoad]_vars

\* providers constructed over the static catalog or a cached one, before or
\* after install(), and asked to resolve model names
NextResolve ==
    \/ Install
    \/ ProviderNew
    \/ ProviderModel(ModelNames)

SpecResolve == InitModels /\ [][NextResolve]_vars

\* save_models() calls and a get_models() call that overlap, as callers in
\* several threads or host processes make them, over a cache file that is
\* absent or holds an earlier catalog
Mock == Entry("mock-image", "Mock Image")
Flux == Entry("flux.2-pro", "FLUX.2 Pro")
Gpt == Entry("gpt-image-1", "None")
SavedDocs == {DataDoc(<<Mock>>), DataDoc(<<Flux, Gpt>>), DataDoc(<<Gpt, Mock, Flux>>)}
StartDisks == {DiskAbsent, Disk(TRUE, dumps(DataDoc(<<Flux>>)))}

InitOverlap ==
    /\ InitChat
    /\ InitCatalog
    /\ InitDisk(StartDisks)
    /\ headers = DefaultHeaders
    /\ api = <<api_base>>
    /\ file = FileAbsent
    /\ env_key = "None"

NextOverlap ==
    \/ SetCacheDir
    \/ \E w \in 1..MaxWriters : SaveOpen(w, SavedDocs)
    \/ \E w \in 1..MaxWriters : SaveWrite(w)
    \/ ReadExists
    \/ ReadLoad

SpecOverlap == InitOverlap /\ [][NextOverlap]_vars

\* both generator classes constructed with every spelling of the api URL:
\* the base, an endpoint suffix or none, trailing slashes or none
MaxSlashes == 2
ApiUrls ==
    {<<api_base>> \o suffix \o [k \in 1..n |-> "/"] :
         suffix \in {<<>>, <<"/images/generations">>, <<"/images/edits">>},
         n \in 0..MaxSlashes}

InitUrl ==
    /\ InitChat
    /\ InitCatalog
    /\ InitDisk({DiskAbsent})
    /\ headers = DefaultHeaders
    /\ api \in ApiUrls
    /\ file = FileAbsent
    /\ env_key = "None"

NextUrl ==
    \/ Install
    \/ Chat(ChatsFew)
    \/ InstallChat(ChatsFew)
    \/ HandleResponse(FewPostOutcomes)
    \/ ToResponseItem

SpecUrl == InitUrl /\ [][NextUrl]_vars

\* generator.py's chat() under every header set get_headers may give
InitHeaders ==
    /\ InitChat
    /\ InitCatalog
    /\ InitDisk({DiskAbsent})
    /\ headers \in HeaderSets
    /\ api = <<api_base>>
    /\ file = FileAbsent
    /\ env_key = "None"

NextHeaders ==
    \/ Chat(ChatsFew)
    \/ HandleResponse(FewPostOutcomes)
    \/ ToResponseItem

SpecHeaders == InitHeaders /\ [][NextHeaders]_vars

\* generator.py's chat() over every transcript, the provider either unreachable
\* or answering with one inline image
NextRoute ==
    \/ Chat(ChatsAll)
    \/ HandleResponse(FewPostOutcomes)
    \/ ToResponseItem

SpecRoute == Init /\ [][NextRoute]_vars


\* ------------------------------------------------------------- claims
Started == impl # "none"
Answered == response # NoAnswer
IsDataImage(part) == part.type = "image_url" /\ StartsWith(part.url, "data:")
UserIndexes(c) == {k \in 1..Len(c.messages) : c.messages[k].role = "user"}
LastUser(c) == c.messages[CHOOSE k \in UserIndexes(c) : \A j \in UserIndexes(c) : j <= k]
\* the data-URI image parts of the most recent user message, as a set of positions
LastUserDataImages(c) ==
    IF UserIndexes(c) = {} \/ ~LastUser(c).content.isList THEN {}
    ELSE {k \in 1..Len(LastUser(c).content.parts) : IsDataImage(LastUser(c).content.parts[k])}
Posts == {k \in 1..Len(calls) : calls[k].method = "POST"}
Gets == {k \in 1..Len(calls) : calls[k].method = "GET"}

C2_InstalledEditRoute ==
    (impl = "install.LumenfallImageGenerator" /\ Truthy(chat.prompt)
        /\ Cardinality(LastUserDataImages(chat)) = 1) =>
        /\ calls # <<>>
        /\ calls[1].method = "POST" /\ calls[1].enc = "multipart"
        /\ calls[1].url = EditsUrl
        /\ (pc = "done" => Len(result.value.choices[1].message.images) >= 1)

\* C3: when ctx.last_user_prompt gives None or "", chat() raises the missing
\* prompt failure and has made no HTTP call and no cache-writer call, in both
\* generator classes and whatever the transcript holds.
C3_NoPromptNoCall ==
    (Started /\ ~Truthy(chat.prompt)) =>
        /\ pc = "failed"
        /\ result = Raised(NoPrompt)
        /\ calls = <<>> /\ gets = <<>> /\ ~Answered
        /\ cache = <<>>

\* a transcript with a user image and an empty prompt was refused
C3_Witness ==
    /\ impl = "generator.py" /\ chat.prompt = ""
    /\ LastUserDataImages(chat) # {}
    /\ pc = "failed"


Status == response.status
Got == Answered /\ ~response.raised
OtherError == Status >= 400 /\ Status \notin {401, 404}
\* the POST answered and to_response reached its loop over data
InLoop ==
    /\ Got /\ Status < 400
    /\ response.body.json = "object" /\ response.body.error = "absent"
    /\ response.body.hasData /\ response.body.data # <<>>
GetsFor(k) == {c \in Gets : calls[c].item = k}
CacheFor(k) == {c \in 1..Len(cache) : cache[c].index = k}

\* C4: a 401 answer raises the authentication failure naming LUMENFALL_API_KEY,
\* a 404 answer the unknown-model failure naming the requested model, any other
\* status >= 400 the generic API failure carrying the status; in all three the
\* body is not decoded into images (no cache-writer call, no secondary GET).
C4_StatusClassification ==
    (Got /\ Status >= 400) =>
        /\ pc = "failed" /\ result.kind = "raised"
        /\ Status = 401 =>
             result.exc.type = "PermissionError"
             /\ Mentions(result.exc.msg, "LUMENFALL_API_KEY")
        /\ Status = 404 =>
             result.exc.type = "ValueError" /\ Mentions(result.exc.msg, chat.model)
        /\ OtherError =>
             /\ result.exc.type = "RuntimeError"
             /\ Mentions(result.exc.msg, "API error (")
             /\ Mentions(result.exc.msg, ToString(Status))
        /\ cache = <<>> /\ images = <<>> /\ Gets = {}

\* C5: for a status >= 400 other than 401 and 404 the failure is the generic
\* API failure, whose message is the body's error.message when the body is a
\* JSON object with an object-valued error holding message, and the raw body
\* text in every other case; no other kind of failure escapes.
C5_GenericFailureMessage ==
    (Got /\ OtherError) =>
        result = Raised(Raise("RuntimeError",
                    <<"API error (", ToString(Status), "): ",
                      IF response.body.json = "object" /\ response.body.error = "message"
                      THEN ErrorMessage ELSE Text(response.body)>>))

\* C6: a 2xx answer gives an image result only if its body is a JSON object
\* with no top-level error field and a non-empty data array; a body with an
\* error field fails even with data, a body without error whose data is missing
\* or empty fails with the "no data" failure, both without any secondary GET or
\* cache-writer call.
C6_ErrorFieldAndNoData ==
    (Got /\ Status >= 200 /\ Status < 300) =>
        LET body == response.body
        IN /\ result.kind = "returned" =>
                /\ body.json = "object" /\ body.error = "absent"
                /\ body.hasData /\ body.data # <<>>
           /\ (body.json = "object" /\ body.error # "absent") =>
                /\ pc = "failed" /\ result.kind = "raised"
                /\ Gets = {} /\ cache = <<>>
           /\ (body.json = "object" /\ body.error = "absent"
                  /\ (~body.hasData \/ body.data = <<>>)) =>
                /\ pc = "failed"
                /\ result = Raised(Raise("RuntimeError", <<"No 'data' field in API response">>))
                /\ Gets = {} /\ cache = <<>>

\* a 200 answer holding both an error object and a data item was refused
C6_Witness ==
    /\ Got /\ Status = 200
    /\ response.body = Body("object", "message", TRUE, <<GoodItem>>)
    /\ pc = "failed"

\* C7: when to_response returns for a data array of length k, the value is
\* {choices: [{message: {role: assistant, content, images}}]} with exactly k
\* images, the i-th being {type: image_url, image_url: {url}} with the URL the
\* cache-writer returned for item i, in data order.
C7_ImagesFollowData ==
    pc = "done" =>
        /\ result.kind = "returned"
        /\ Len(result.value.choices) = 1
        /\ LET message == result.value.choices[1].message
           IN /\ message.role = "assistant"
              /\ message.content = "default_content"
              /\ Len(message.images) = Len(Data)
              /\ Len(cache) = Len(Data)
              /\ \A k \in 1..Len(Data) :
                    /\ cache[k].index = k - 1
                    /\ cache[k].src = IF Truthy(Data[k].b64_json) THEN "b64_json" ELSE "url"
                    /\ message.images[k] =
                         [type |-> "image_url", image_url |-> [url |-> cache[k].url]]

\* two items were returned and the cache-writer gave them different URLs
C7_Witness ==
    /\ pc = "done" /\ Len(Data) = 2
    /\ cache[1].url # cache[2].url
    /\ Data[1].b64_json = "None"

\* item k yields no image bytes: neither field non-empty, or empty bytes
NoBytes(k) ==
    LET item == Data[k + 1]
    IN IF Truthy(item.b64_json)
       THEN b64decode(item.b64_json).ok /\ b64decode(item.b64_json).bytes = ""
       ELSE IF Truthy(item.url)
            THEN \E j \in 1..Len(gets) :
                    /\ gets[j].item = k /\ ~gets[j].answer.raised
                    /\ gets[j].answer.status = 200 /\ gets[j].answer.bytes = ""
            ELSE TRUE
\* the loop is past item k, or ended in it
Handled(k) == k < i \/ (k = i /\ pc = "failed")

\* C8: a data item from which no image bytes are obtained fails the whole
\* request with the failure naming its index; it is never skipped and never
\* gets an images entry.
C8_NoBytesFailsWithIndex ==
    InLoop =>
        \A k \in 0..(Len(Data) - 1) :
            (Handled(k) /\ NoBytes(k)) =>
                /\ pc = "failed" /\ i = k
                /\ result = Raised(Raise("RuntimeError",
                               <<"No image data in response item ", ToString(k)>>))
                /\ Len(images) = k
                /\ CacheFor(k) = {}

\* the second item was downloaded with status 200 and an empty body
C8_Witness ==
    /\ InLoop /\ pc = "failed" /\ i = 1
    /\ Data[2] = UrlItem /\ NoBytes(1)

ItemStarted(k) == k < i \/ (k = i /\ pc \in {"get", "failed"})

\* C9: for each data item the loop takes up, a secondary GET is issued if and
\* only if the item has no non-empty b64_json and has a non-empty url; an item
\* with both is decoded from b64_json without GET; at most one GET per item;
\* a GET answered with a status other than 200 fails the whole request.
C9_GetOnlyWithoutB64 ==
    /\ ~InLoop => Gets = {}
    /\ InLoop =>
         \A k \in 0..(Len(Data) - 1) :
            /\ Cardinality(GetsFor(k)) <= 1
            /\ ~ItemStarted(k) => GetsFor(k) = {}
            /\ ItemStarted(k) =>
                 (GetsFor(k) # {} <=>
                     (~Truthy(Data[k + 1].b64_json) /\ Truthy(Data[k + 1].url)))
            /\ (Truthy(Data[k + 1].b64_json) /\ Truthy(Data[k + 1].url)) =>
                 \A c \in CacheFor(k) : cache[c].src = "b64_json"
    /\ \A j \in 1..Len(gets) :
         (~gets[j].answer.raised /\ gets[j].answer.status # 200) =>
            /\ j = Len(gets)
            /\ pc = "failed" /\ result.kind = "raised"
            /\ CacheFor(gets[j].item) = {}

\* an item with both fields was stored without GET, the next one was downloaded
C9_Witness ==
    /\ pc = "done" /\ Len(Data) = 2
    /\ Data[1] = [b64_json |-> "iVBORw0K", url |-> "https://cdn.example/img"]
    /\ Data[2] = UrlItem
    /\ Cardinality(Gets) = 1

\* C10: one chat() issues at most one POST, before every GET; GETs are issued
\* one at a time in data order, the GET of an item only after all earlier items
\* are stored; no call is issued twice; a network call that fails ends the
\* invocation with an error and no further call.
C10_SequentialCallsNoRetry ==
    /\ Cardinality(Posts) <= 1
    /\ \A k \in 1..Len(calls) : (calls[k].method = "POST") <=> (k = 1)
    /\ pc = "post" => (Len(calls) = 1 /\ ~Answered)
    /\ Gets # {} => Got
    /\ \A a \in Gets : \A b \in Gets : a < b => calls[a].item < calls[b].item
    /\ \A c \in Gets : \A m \in 0..(calls[c].item - 1) : CacheFor(m) # {}
    /\ Len(gets) = Cardinality(Gets) - (IF pc = "get" THEN 1 ELSE 0)
    /\ pc = "get" =>
         (calls[Len(calls)].item = i /\ Len(images) = i /\ Len(cache) = i)
    /\ (Answered /\ response.raised) =>
         (pc = "failed" /\ result.kind = "raised" /\ Len(calls) = 1)
    /\ \A j \in 1..Len(gets) :
         gets[j].answer.raised =>
            /\ j = Len(gets) /\ Len(calls) = 1 + Len(gets)
            /\ pc = "failed" /\ result.kind = "raised"
    /\ pc = "failed" => result.kind = "raised"

\* the POST and then two downloads, one after the other, all succeeded
C10_Witness ==
    /\ pc = "done" /\ Len(calls) = 3 /\ Len(gets) = 2
    /\ calls[2].item = 0 /\ calls[3].item = 1

\* ------------------------------------------------------ catalog claims
\* a catalog response: an object whose entries, if any, each carry an id
WellFormed(doc) ==
    /\ doc.json = "object"
    /\ doc.hasData => \A k \in 1..Len(doc.data) : doc.data[k].id # "None"
IdsOf(doc) == IF doc.hasData THEN {doc.data[k].id : k \in 1..Len(doc.data)} ELSE {}
\* the reference mapping of a catalog response: one entry per id, named by the
\* last entry of that id, or by the id when that entry has no name
Reference(doc) ==
    {Entry(id, LET last == CHOOSE k \in 1..Len(doc.data) :
                              /\ doc.data[k].id = id
                              /\ \A j \in (k + 1)..Len(doc.data) : doc.data[j].id # id
               IN IF doc.data[last].name = "None" THEN id ELSE doc.data[last].name)
       : id \in IdsOf(doc)}

\* C11: get_models() never raises because of the cache: it returns the
\* normalized content of the cache file when a cache directory is configured
\* and the file holds a well-formed catalog response, and the static catalog
\* in every other case (no directory, file absent, unreadable, not JSON, or
\* JSON that is not a catalog response)
C11_CacheNeverRaises ==
    lastop.name = "get_models" =>
        /\ out.kind = "returned"
        /\ out.models = IF cache_path # "None" /\ file.state = "json" /\ WellFormed(file.doc)
                        THEN Reference(file.doc)
                        ELSE Reference(StaticDoc)

\* the latest load() went as far as its catalog GET and has returned
Refreshing == lpc = "returned" /\ lastFetch.kind # "none"
\* the GET answered 200 with a JSON body
GoodFetch(o) == o.kind = "answered" /\ o.status = 200 /\ o.json = "valid"
\* the refresh failed: no answer, another status, a body that is not JSON, or
\* JSON that is not a catalog response
FailedFetch(o) == ~GoodFetch(o) \/ ~WellFormed(o.doc)

\* C12: when the refresh of load() fails at any step (connection error,
\* timeout, non-200 status, body not JSON, or a 200 body that is not a
\* well-formed catalog response), load() returns without raising and the
\* catalog stays as it was: get_models() returns the same mapping as before
\* and the registered provider's model list is unchanged
C12_FailedRefreshKeepsCatalog ==
    (Refreshing /\ FailedFetch(lastFetch)) =>
        /\ get_models(cache_path, file) = snap.catalog
        /\ registry # 0 => made[registry].models = snap.models

\* C13: after any sequence of install() and load() calls the cache file is
\* either absent or holds exactly the raw body of the most recent successful
\* catalog fetch (status 200 with a JSON body); a refresh that does not
\* succeed leaves the file as it found it; and the catalog the refresh hands
\* to the provider is the one read from the file as last written
C13_FileIsLastGoodFetch ==
    /\ file = FileAbsent \/ (GoodFetch(lastGood) /\ file = json_dump(lastGood.doc))
    /\ (Refreshing /\ ~GoodFetch(lastFetch)) => file = snap.file
    /\ (Refreshing /\ GoodFetch(lastFetch) /\ registry # 0 /\ WellFormed(file.doc)) =>
           made[registry].models = Reference(file.doc)
\* a later run's successful fetch has replaced the body an earlier run cached
C13_Witness ==
    /\ Refreshing
    /\ GoodFetch(lastFetch)
    /\ snap.file.state = "json"
    /\ file # snap.file
    /\ registry # 0
    /\ WellFormed(file.doc)

\* C14: save_models(r) replaces the whole content of the cache file with the
\* raw, un-normalized r when a cache directory has been configured; when none
\* has been, it changes nothing and a following get_models() still returns
\* the static catalog
C14_SaveReplacesOrNoop ==
    /\ lastop.name = "save_models" =>
           file = IF cache_path # "None" THEN json_dump(lastop.arg) ELSE lastop.before
    /\ (lastop.name = "get_models" /\ lastop.after = "save_models" /\ cache_path = "None") =>
           /\ file = lastop.before
           /\ out = Gave(Reference(StaticDoc))
\* a cached document was replaced by a response whose entry has no name
C14_Witness ==
    /\ lastop.name = "save_models"
    /\ cache_path # "None"
    /\ lastop.before.state = "json"
    /\ file # lastop.before
    /\ lastop.arg = DataDoc(<<Entry("gpt-image-1", "None")>>)

\* get_models() was called right after save_models(r), r a catalog response
RoundTrip == lastop.name = "get_models" /\ lastop.after = "save_models" /\ WellFormed(lastop.arg)
\* the mapping returned contains every id of r with the entry _parse_models gives it
ContainsParsed(r) ==
    /\ out.kind = "returned"
    /\ \A id \in IdsOf(r) :
           \E e \in out.models : e.id = id /\ e \in parse_models(r).models

\* C15 as stated: for every catalog response r, save_models(r) followed by
\* get_models() yields a mapping that contains every id present in r.data,
\* each mapped to the entry that _parse_models gives it
C15_RoundTrip == RoundTrip => ContainsParsed(lastop.arg)
\* C15 amended: the same, provided a cache directory has been configured
C15_RoundTripWithCacheDir == (RoundTrip /\ cache_path # "None") => ContainsParsed(lastop.arg)
\* a response with an id the static catalog lacks went through the cache
C15_Witness ==
    /\ RoundTrip
    /\ cache_path # "None"
    /\ lastop.arg = DataDoc(<<Entry("gpt-image-1", "None"), Entry("mock-image", "FLUX.2 Pro")>>)
    /\ out.kind = "returned"

\* C16: _parse_models(r) is the reference mapping of r: its keys are exactly
\* the ids in r.data, each mapped to {id, name} with the entry's name when it
\* has one and the id otherwise; empty or absent data gives the empty mapping
C16_ParseIsReference ==
    (lastop.name = "_parse_models" /\ WellFormed(lastop.arg)) =>
        /\ out = Gave(Reference(lastop.arg))
        /\ {e.id : e \in out.models} = IdsOf(lastop.arg)
        /\ (~lastop.arg.hasData \/ lastop.arg.data = <<>>) => out.models = {}
\* two entries of one id, the first named, the second not
C16_Witness ==
    /\ lastop.name = "_parse_models"
    /\ lastop.arg = DataDoc(<<Entry("flux.2-pro", "FLUX.2 Pro"), Entry("flux.2-pro", "None")>>)
    /\ out = Gave({Entry("flux.2-pro", "flux.2-pro")})

\* what the latest load() of this run found when it was called
MayRegister == snap.before = 0 /\ Truthy(env_key)

\* C17: load(ctx) adds a "lumenfall" registry entry if and only if the
\* registry has no "lumenfall" entry and LUMENFALL_API_KEY is set and
\* non-empty; an entry already configured is never replaced; and when either
\* condition fails, load() leaves the registry unchanged, issues no network
\* call and does not touch the cache file
C17_LoadRegistersIff ==
    loads > 0 =>
        /\ registry = snap.entry
        /\ (snap.entry # snap.before) <=> MayRegister
        /\ snap.before # 0 => snap.entry = snap.before
        /\ ~MayRegister =>
               /\ lpc = "returned"
               /\ lcalls = snap.calls
               /\ file = snap.file
               /\ registry # 0 => made[registry].models = snap.models

\* C19: in every ordering of install() and provider constructions, a
\* LumenfallProvider has an image sub-handler if and only if install() had
\* set the generator factory before that provider was constructed; a
\* provider constructed before install() is catalog-only and stays so after
\* a later install()
C19_WiredIffInstalledBefore ==
    \A k \in 1..Len(made) : made[k].image <=> (installedAt # -1 /\ k > installedAt)
\* one provider made before install() and one after it
C19_Witness ==
    /\ Len(made) = 2
    /\ installedAt = 1
    /\ ~made[1].image
    /\ made[1].models # {}
    /\ made[2].image

\* the catalog ids of the provider the latest provider_model() call was made on
Catalog == {m.id : m \in made[resolved.provider].models}
\* the name is a catalog id, as it is, prefixed with "lumenfall/", or in another case
NamesId(name, id) == name.base = id /\ name.prefix \in {"", "lumenfall/"}

\* C18: provider_model returns a non-null id for every id in the catalog,
\* the same id for that id prefixed with "lumenfall/" or written in a
\* different letter case, and null for every name not in the catalog, in
\* particular for gpt-4o, claude-3-opus, llama-3, mistral-large and
\* gemini-2.5-flash
C18_ResolvesCatalogOnly ==
    resolved.provider # 0 =>
        /\ \A id \in Catalog : NamesId(resolved.name, id) => resolved.id = id
        /\ (~\E id \in Catalog : NamesId(resolved.name, id)) => resolved.id = "None"
        /\ resolved.name.base \in TextModels => resolved.id = "None"
\* a catalog id, prefixed and in capitals, resolved by a provider holding a cached catalog
C18_Witness ==
    /\ resolved.provider # 0
    /\ cache_path # "None"
    /\ file.state = "json"
    /\ resolved.name = ModelName("lumenfall/", "gpt-image-1", "capitals")
    /\ resolved.id = "gpt-image-1"

\* C20: on the edit path, for every header set get_headers produces, the
\* headers passed with the multipart POST contain no Content-Type header
\* under any letter-casing of the name, while every other header (notably
\* Authorization: Bearer <api_key>) is passed unchanged
C20_EditPostWithoutContentType ==
    (branch = <<"edit">> /\ calls # <<>>) =>
        /\ \A e \in post_headers : lower(e.name) # "content-type"
        /\ post_headers = {e \in headers : lower(e.name) # "content-type"}

\* ------------------------------------------------- overlapping access
\* the save_models() calls that opened the file and have closed it
Wrote == {w \in 1..MaxWriters : writers[w].pc = "closed" /\ writers[w].off > 0}
\* no save_models() call is between its open and its close
Quiet == \A w \in 1..MaxWriters : writers[w].pc # "open"
\* the catalogs a get_models() overlapping the saves may return
OldNewOrStatic ==
    {get_models(CachePath, FileOf(disk0)), parse_models(StaticDoc)}
    \cup {parse_models(writers[w].doc) : w \in {v \in 1..MaxWriters : writers[v].pc # "idle"}}

\* C21, first half: when save_models calls overlap, the file afterwards holds
\* exactly the response of one of them and never a mixture
FileIsOneResponse ==
    (Quiet /\ Wrote # {}) => \E w \in Wrote : disk.text = dumps(writers[w].doc)
\* C21, second half: a get_models() that overlaps a save_models() does not
\* raise and returns the catalog of the old file, of the new file, or the
\* static fallback
ReadIsOldNewOrStatic ==
    reader.pc = "done" => reader.out.kind = "returned" /\ reader.out \in OldNewOrStatic

\* C21: the catalog cache file is safe without locking under overlapping
\* access: after overlapping save_models calls the file holds exactly the
\* response of one of them, never a mixture, and an overlapping get_models()
\* does not raise and returns the catalog of the old file, of the new file,
\* or the static fallback
C21_OverlapSafe == FileIsOneResponse /\ ReadIsOldNewOrStatic

\* ----------------------------------------------------- request URLs
IsEndpoint(seg) == seg \in {"/images/generations", "/images/edits"}
\* u with its trailing slashes and its endpoint suffix removed
BaseOf(u) == SelectSeq(u, LAMBDA seg : seg # "/" /\ ~IsEndpoint(seg))
\* the generate requests sent so far
GeneratePosts == {k \in 1..Len(calls) : calls[k].method = "POST" /\ calls[k].enc = "json"}

\* C22: for every configured api URL u (with or without trailing slashes,
\* an endpoint suffix, a slash after it), each generator implementation
\* sends its generate requests to base + "/images/generations", base being
\* u with trailing slashes and endpoint suffix removed: the endpoint segment
\* occurs exactly once, and constructing from the normalized URL gives the
\* same URL
C22_GenerateUrlNormalized ==
    \A k \in GeneratePosts :
        /\ calls[k].url = BaseOf(api) \o <<"/images/generations">>
        /\ Len(SelectSeq(calls[k].url, IsEndpoint)) = 1
        /\ generator_init(calls[k].url).api = calls[k].url
        /\ install_init(calls[k].url).api = calls[k].url

\* ------------------------------------------------ cache-writer order
\* C23: in to_response the cache-writer is called for item i only after
\* every item j < i has been obtained and written, and at most once per item;
\* so when the request fails at item k (no bytes or failed download) exactly
\* the items 0..k-1 have been written to the host cache although no response
\* is returned, and no item after k is fetched or written
C23_CacheWrittenInOrder ==
    /\ ~InLoop => cache = <<>>
    /\ InLoop =>
        /\ Len(cache) = i
        /\ \A k \in 1..Len(cache) : cache[k].index = k - 1
        /\ \A c \in Gets : calls[c].item <= i /\ (pc = "done" => calls[c].item < i)
        /\ \A k \in 0..(Len(Data) - 1) :
               /\ Cardinality(CacheFor(k)) <= 1
               /\ (CacheFor(k) # {} /\ ~Truthy(Data[k + 1].b64_json)) => GetsFor(k) # {}
        /\ pc = "failed" =>
               /\ result.kind = "raised"
               /\ i < Len(Data)
               /\ \A k \in 0..(Len(Data) - 1) : CacheFor(k) # {} <=> k < i
        /\ pc = "done" => i = Len(Data)
\* item 0 was written to the cache, then item 1 gave no bytes
C23_Witness ==
    /\ InLoop
    /\ pc = "failed"
    /\ i = 1
    /\ Len(cache) = 1
    /\ result.exc = NoImageData
====
